---- MODULE Spec2Model ----
(***************************************************************************)
(* diesel-sqlite-session: change tracking (Session), diff export and diff  *)
(* application with a conflict-resolution bridge, over the SQLite session  *)
(* extension.                                                              *)
(*                                                                         *)
(* The crate's own code (src/src/errors.rs, session.rs, apply.rs) is       *)
(* modelled operator by operator.  The native engine it drives             *)
(* (sqlite3session_*, sqlite3changeset_apply) is not part of the crate; it *)
(* is modelled by its documented behaviour: a session keeps, per primary   *)
(* key, the row image seen at the first recorded write, an export diffs    *)
(* those images against the rows the database holds at export time, and    *)
(* an apply walks the diff change by change and stops at an abort.         *)
(***************************************************************************)
EXTENDS Integers, Sequences, FiniteSets, TLC

VARIABLES
    src,      \* source connection: rows, a function from the present cells to values
    rep,      \* replica (target) connection: rows
    sess,     \* the Session on the source connection
    base,     \* history: the source's rows when the Session was created
    want,     \* history: the flag last passed to set_enabled (TRUE at creation)
    seen,     \* history: per cell written while tracking was on, its image before the
              \*          first and after the last such write
    wDis,     \* history: cells written while tracking was off
    nW,       \* history: number of row writes counted against MaxWrites
    out,      \* result of the last changeset()/patchset() call
    res,      \* result of the last apply_changeset()/apply_patchset() call
    br,       \* an apply call in flight against an arbitrary native engine
    conn,     \* the source connection's handle: "open" or "closed", or "aborted"
              \*          once the process was aborted
    asked,    \* history: the table names passed to attach_by_name, and whether
              \*          attach_all was called
    last,     \* result of the last attach call on the Session
    schema,   \* the source connection's schema: the tables that exist, and
              \*          (history) those created after attach_all succeeded
    thread    \* the thread that holds the connection, the thread that holds the
              \*          Session, and (history) the threads that touched the
              \*          native session object

vars ==
    <<src, rep, sess, base, want, seen, wDis, nW, out, res, br, conn, asked, last, schema,
      thread>>

----------------------------------------------------------------------------
(* Bounds of the model *)

MaxKey == 2
MaxVal == 2
MaxWrites == 4
MaxConflicts == 2
MaxBuf == 2
MaxCode == 60

(* Native codes (libsqlite3-sys, imported by src/src/ffi.rs) *)

SQLITE_OK == 0
SQLITE_ABORT == 4
SQLITE_NOMEM == 7
SQLITE_TOOBIG == 18
SQLITE_MISUSE == 21
SQLITE_CHANGESET_ABORT == 2

(* A buffer length is a usize kept as two 16-bit limbs, so that lengths    *)
(* beyond the C int range stay representable.                              *)
USize(n) == [hi |-> n \div 65536, lo |-> n % 65536]
C_INT_MAX == [hi |-> 32767, lo |-> 65535]

----------------------------------------------------------------------------
(* Option and Result values *)

Some(x) == [some |-> TRUE, val |-> x]
None == [some |-> FALSE]
Ok(x) == [ok |-> TRUE, val |-> x]
Err(e) == [ok |-> FALSE, err |-> e]

c_int_try_from_wrapping(len) == Ok([hi |-> len.hi % 32768, lo |-> len.lo])

c_int_try_from(len) ==
    IF len.hi > C_INT_MAX.hi THEN Err("TryFromIntError") ELSE Ok(len)

----------------------------------------------------------------------------
(* src/src/errors.rs: the error model *)

KnownCode(tag) == [tag |-> tag]
Unknown(code) == [tag |-> "Unknown", code |-> code]

SqliteErrorCode_from_error(code) ==
    CASE code = 1 -> KnownCode("Error")
      [] code = 2 -> KnownCode("Internal")
      [] code = 3 -> KnownCode("Permission")
      [] code = 5 -> KnownCode("Busy")
      [] code = 6 -> KnownCode("Locked")
      [] code = 7 -> KnownCode("NoMemory")
      [] code = 8 -> KnownCode("ReadOnly")
      [] code = 17 -> KnownCode("Schema")
      [] code = 21 -> KnownCode("Misuse")
      [] OTHER -> Unknown(code)

SqliteErrorCode_from_raw(code) ==
    CASE code = 0 -> None
      [] code = 1 -> Some(KnownCode("Error"))
      [] code = 2 -> Some(KnownCode("Internal"))
      [] code = 3 -> Some(KnownCode("Permission"))
      [] code = 5 -> Some(KnownCode("Busy"))
      [] code = 6 -> Some(KnownCode("Locked"))
      [] code = 7 -> Some(KnownCode("NoMemory"))
      [] code = 8 -> Some(KnownCode("ReadOnly"))
      [] code = 17 -> Some(KnownCode("Schema"))
      [] code = 21 -> Some(KnownCode("Misuse"))
      [] OTHER -> Some(Unknown(code))

SqliteErrorCode_to_raw_lossy(e) ==
    CASE e.tag = "Error" -> 1
      [] e.tag = "Internal" -> 2
      [] e.tag = "Permission" -> 3
      [] e.tag = "Busy" -> 5
      [] e.tag = "Locked" -> 6
      [] e.tag = "NoMemory" -> 7
      [] e.tag = "ReadOnly" -> 8
      [] e.tag = "Schema" -> 17
      [] e.tag = "Misuse" -> 21
      [] e.tag = "Unknown" -> 1

SqliteErrorCode_to_raw(e) ==
    CASE e.tag = "Error" -> 1
      [] e.tag = "Internal" -> 2
      [] e.tag = "Permission" -> 3
      [] e.tag = "Busy" -> 5
      [] e.tag = "Locked" -> 6
      [] e.tag = "NoMemory" -> 7
      [] e.tag = "ReadOnly" -> 8
      [] e.tag = "Schema" -> 17
      [] e.tag = "Misuse" -> 21
      [] e.tag = "Unknown" -> e.code

ConflictTypes == {"Data", "NotFound", "Conflict", "Constraint", "ForeignKey"}

ConflictType_from_raw_or_constraint(code) ==
    CASE code = 1 -> Some("Data")
      [] code = 2 -> Some("NotFound")
      [] code = 3 -> Some("Conflict")
      [] code = 5 -> Some("ForeignKey")
      [] OTHER -> Some("Constraint")

ConflictType_from_raw_swapped(code) ==
    CASE code = 1 -> Some("Conflict")
      [] code = 2 -> Some("NotFound")
      [] code = 3 -> Some("Data")
      [] code = 4 -> Some("Constraint")
      [] code = 5 -> Some("ForeignKey")
      [] OTHER -> None

ConflictType_from_raw(code) ==
    CASE code = 1 -> Some("Data")
      [] code = 2 -> Some("NotFound")
      [] code = 3 -> Some("Conflict")
      [] code = 4 -> Some("Constraint")
      [] code = 5 -> Some("ForeignKey")
      [] OTHER -> None

ConflictType_to_raw(t) ==
    CASE t = "Data" -> 1
      [] t = "NotFound" -> 2
      [] t = "Conflict" -> 3
      [] t = "Constraint" -> 4
      [] t = "ForeignKey" -> 5

ConflictActions == {"Omit", "Replace", "Abort"}

ConflictAction_to_raw_swapped(a) ==
    CASE a = "Omit" -> 1
      [] a = "Replace" -> 0
      [] a = "Abort" -> 2

ConflictAction_to_raw(a) ==
    CASE a = "Omit" -> 0
      [] a = "Replace" -> 1
      [] a = "Abort" -> 2

SessionError(tag, code) == [tag |-> tag, code |-> code]
InvalidTableName == [tag |-> "InvalidTableName"]

ApplyFailed(code) == [tag |-> "ApplyFailed", code |-> code]
ConflictAborted == [tag |-> "ConflictAborted"]
ConflictHandlerPanicked == [tag |-> "ConflictHandlerPanicked"]

----------------------------------------------------------------------------
(* Database rows.  A cell is <<table, primary key>>; a connection's rows   *)
(* are a function from the cells that hold a row to the row's non-key      *)
(* columns <<name, quantity>>.  A row image is {} (no row) or {v}.  The    *)
(* change record of an UPDATE carries only the columns the update changed; *)
(* the others are Undefined in its old and new images.                     *)

NUL == "NUL"
TableSeq == <<(<<"items">>), (<<"logs">>)>>
Tables == {TableSeq[i] : i \in DOMAIN TableSeq}
Keys == 1..MaxKey
Vals == 1..MaxVal
Quantities == {1, 2}
Columns == {1, 2}
RowVals == Vals \X Quantities
Undefined == 0
Cells == Tables \X Keys

CellSeq ==
    [i \in 1..(Len(TableSeq) * MaxKey) |->
        <<TableSeq[((i - 1) \div MaxKey) + 1], ((i - 1) % MaxKey) + 1>>]

EmptyDb == [c \in {} |-> <<1, 1>>]
DbsOver(cells, rows) == UNION {[S -> rows] : S \in SUBSET cells}
Row(db, c) == IF c \in DOMAIN db THEN {db[c]} ELSE {}
PutRow(db, c, v) == [x \in (DOMAIN db) \cup {c} |-> IF x = c THEN v ELSE db[x]]
DelRow(db, c) == [x \in (DOMAIN db) \ {c} |-> db[x]]
TheRow(img) == CHOOSE v \in img : TRUE
ChangedColumns(o, n) == [k \in Columns |-> IF o[k] # n[k] THEN n[k] ELSE Undefined]
Overlay(v, part) == [k \in Columns |-> IF part[k] = Undefined THEN v[k] ELSE part[k]]
TableRows(db, t) == [c \in {x \in DOMAIN db : x[1] = t} |-> db[c]]

----------------------------------------------------------------------------
(* src/src/apply.rs: the conflict bridge *)

(* A resolver returns an action or fails: "Panic" is a panic with an       *)
(* ordinary payload, "PanicInDrop" a panic whose payload panics again when *)
(* it is dropped.                                                          *)
Failures == {"Panic", "PanicInDrop"}
Outcomes == ConflictActions \cup Failures

ConflictContext_reused(handler) ==
    [handler |-> handler,
     aborted |-> (br.pc = "done" /\ br.ctx.aborted),
     panicked |-> (br.pc = "done" /\ br.ctx.panicked)]

ConflictContext(handler) == [handler |-> handler, aborted |-> FALSE, panicked |-> FALSE]

catch_unwind(outcome) ==
    IF outcome \in Failures THEN Err([drop_panics |-> (outcome = "PanicInDrop")])
    ELSE Ok(outcome)

(* The callback drops the payload of a caught panic before it returns; a   *)
(* panic raised by that drop leaves an extern "C" function, which cannot   *)
(* unwind: the process is aborted and the callback never returns (died,    *)
(* with no return value, written -1).                                      *)

conflict_callback_aborts_unless_replace(ctx, conflict_type) ==
    LET t == ConflictType_from_raw(conflict_type)
        r == IF t.some THEN catch_unwind(ctx.handler[t.val]) ELSE Ok("Abort")
        action == IF r.ok THEN r.val ELSE "Abort"
        c1 == IF t.some /\ ~r.ok THEN [ctx EXCEPT !.panicked = TRUE] ELSE ctx
        c2 == IF action # "Replace" THEN [c1 EXCEPT !.aborted = TRUE] ELSE c1
    IN  [ret |-> IF t.some /\ ~r.ok /\ r.err.drop_panics THEN -1
                 ELSE ConflictAction_to_raw(action),
         ctx |-> c2,
         invoked |-> t.some,
         calls |-> IF t.some THEN <<t.val>> ELSE <<>>,
         died |-> (t.some /\ ~r.ok /\ r.err.drop_panics)]

conflict_callback_omits_on_panic(ctx, conflict_type) ==
    LET t == ConflictType_from_raw(conflict_type)
        r == IF t.some THEN catch_unwind(ctx.handler[t.val]) ELSE Ok("Abort")
        action == IF r.ok THEN r.val ELSE "Omit"
        c1 == IF t.some /\ ~r.ok THEN [ctx EXCEPT !.panicked = TRUE] ELSE ctx
        c2 == IF action = "Abort" THEN [c1 EXCEPT !.aborted = TRUE] ELSE c1
    IN  [ret |-> IF t.some /\ ~r.ok /\ r.err.drop_panics THEN -1
                 ELSE ConflictAction_to_raw(action),
         ctx |-> c2,
         invoked |-> t.some,
         calls |-> IF t.some THEN <<t.val>> ELSE <<>>,
         died |-> (t.some /\ ~r.ok /\ r.err.drop_panics)]

conflict_callback(ctx, conflict_type) ==
    LET t == ConflictType_from_raw(conflict_type)
        r == IF t.some THEN catch_unwind(ctx.handler[t.val]) ELSE Ok("Abort")
        action == IF r.ok THEN r.val ELSE "Abort"
        c1 == IF t.some /\ ~r.ok THEN [ctx EXCEPT !.panicked = TRUE] ELSE ctx
        c2 == IF action = "Abort" THEN [c1 EXCEPT !.aborted = TRUE] ELSE c1
    IN  [ret |-> IF t.some /\ ~r.ok /\ r.err.drop_panics THEN -1
                 ELSE ConflictAction_to_raw(action),
         ctx |-> c2,
         invoked |-> t.some,
         calls |-> IF t.some THEN <<t.val>> ELSE <<>>,
         died |-> (t.some /\ ~r.ok /\ r.err.drop_panics)]

----------------------------------------------------------------------------
(* The native apply entry point, sqlite3changeset_apply.  A diff is a      *)
(* sequence of changes [op, cell, old, new, pset]; a patchset change       *)
(* (pset) carries no old image.  Conflicts: a changed row whose image      *)
(* differs from old is DATA (1), a missing row NOT FOUND (2), an insert    *)
(* over an existing key CONFLICT (3).  An Abort resolution stops the call  *)
(* with SQLITE_ABORT, a Replace resolution where none is allowed stops it  *)
(* with SQLITE_MISUSE.  What a stopped call leaves of the changes it had   *)
(* already applied is not decided by the crate: the changes stay where the *)
(* engine changes rows in place, and are undone where it encloses the call *)
(* in a savepoint.  The result therefore carries dbs, the set of targets   *)
(* the call may leave: one target when the call ran to its end, the target *)
(* as changed so far or as it was before the call when it was stopped.     *)
(* A call the process is aborted in never commits what it had applied: the *)
(* database it leaves behind holds the rows from before the call.          *)

DetectConflict(db, ch) ==
    CASE ch.op = "INSERT" -> IF ch.cell \in DOMAIN db THEN 3 ELSE 0
      [] ch.op = "DELETE" ->
            IF ch.cell \notin DOMAIN db THEN 2
            ELSE IF ~ch.pset /\ Row(db, ch.cell) # ch.old THEN 1
            ELSE 0
      [] OTHER ->
            IF ch.cell \notin DOMAIN db THEN 2
            ELSE IF ~ch.pset /\ \E k \in Columns :
                                   /\ TheRow(ch.old)[k] # Undefined
                                   /\ db[ch.cell][k] # TheRow(ch.old)[k]
                 THEN 1
            ELSE 0

ApplyChange(db, ch) ==
    CASE ch.op = "INSERT" -> PutRow(db, ch.cell, TheRow(ch.new))
      [] ch.op = "DELETE" -> DelRow(db, ch.cell)
      [] OTHER -> PutRow(db, ch.cell, Overlay(db[ch.cell], TheRow(ch.new)))

(* The change loop of one apply call: ApplyFrom holds the loop's state      *)
(* before change i (the database, the context and the callback log as the  *)
(* changes before i left them) and ApplyAt handles change i from it.       *)
RECURSIVE ApplyFrom(_, _, _, _, _, _)
RECURSIVE ApplyAt(_, _, _, _, _, _)
ApplyAt(db0, data, i, db, ctx, log) ==
    LET ch == data[i]
        code == DetectConflict(db, ch)
    IN  IF code = 0 THEN ApplyFrom(db0, data, i + 1, ApplyChange(db, ch), ctx, log)
        ELSE
            LET cb == conflict_callback(ctx, code)
                lg == Append(log, [code |-> code, ret |-> cb.ret, invoked |-> cb.invoked,
                                   at |-> i])
            IN  CASE cb.died ->
                        [rc |-> SQLITE_OK, dbs |-> {db0}, ctx |-> cb.ctx, log |-> lg,
                         died |-> TRUE]
                  [] cb.ret = 0 -> ApplyFrom(db0, data, i + 1, db, cb.ctx, lg)
                  [] cb.ret = 1 /\ code \in {1, 3} ->
                        ApplyFrom(db0, data, i + 1, ApplyChange(db, ch), cb.ctx, lg)
                  [] cb.ret = 2 ->
                        [rc |-> SQLITE_ABORT, dbs |-> {db, db0}, ctx |-> cb.ctx, log |-> lg,
                         died |-> FALSE]
                  [] OTHER ->
                        [rc |-> SQLITE_MISUSE, dbs |-> {db, db0}, ctx |-> cb.ctx, log |-> lg,
                         died |-> FALSE]

ApplyFrom(db0, data, i, db, ctx, log) ==
    IF i > Len(data) THEN
        [rc |-> SQLITE_OK, dbs |-> {db}, ctx |-> ctx, log |-> log, died |-> FALSE]
    ELSE
        CHOOSE r \in {ApplyAt(db0, data, i, d, c, l) : d \in {db}, c \in {ctx}, l \in {log}} :
            TRUE

sqlite3changeset_apply(db, nData, data, ctx) ==
    ApplyFrom(db, SubSeq(data, 1, nData), 1, db, ctx, <<>>)

----------------------------------------------------------------------------
(* src/src/apply.rs: apply_impl *)

(* The outcome of a call that never returns because the process was       *)
(* aborted inside the callback; it is not a value of ApplyError.           *)
ProcessAborted == [tag |-> "ProcessAborted"]

NotCalled == [rc |-> SQLITE_OK, log |-> <<>>, died |-> FALSE, called |-> FALSE]

apply_precheck_no_empty(len) ==
    IF ~c_int_try_from(len).ok
    THEN Some(Err(ApplyFailed(SqliteErrorCode_from_error(SQLITE_TOOBIG))))
    ELSE None

apply_precheck(len) ==
    IF len = USize(0) THEN Some(Ok("unit"))
    ELSE IF ~c_int_try_from(len).ok
         THEN Some(Err(ApplyFailed(SqliteErrorCode_from_error(SQLITE_TOOBIG))))
    ELSE None

apply_result_ignores_abort(rc, ctx) ==
    IF ctx.panicked THEN Err(ConflictHandlerPanicked)
    ELSE IF rc # SQLITE_OK /\ rc # SQLITE_CHANGESET_ABORT
         THEN Err(ApplyFailed(SqliteErrorCode_from_error(rc)))
    ELSE Ok("unit")

apply_result_rc_first(rc, ctx) ==
    IF rc = SQLITE_OK THEN Ok("unit")
    ELSE IF ctx.panicked THEN Err(ConflictHandlerPanicked)
    ELSE IF ctx.aborted THEN Err(ConflictAborted)
    ELSE IF rc # SQLITE_CHANGESET_ABORT
         THEN Err(ApplyFailed(SqliteErrorCode_from_error(rc)))
    ELSE Ok("unit")

apply_result_abort_first(rc, ctx) ==
    IF ctx.aborted THEN Err(ConflictAborted)
    ELSE IF ctx.panicked THEN Err(ConflictHandlerPanicked)
    ELSE IF rc # SQLITE_OK /\ rc # SQLITE_CHANGESET_ABORT
         THEN Err(ApplyFailed(SqliteErrorCode_from_error(rc)))
    ELSE Ok("unit")

apply_result(rc, ctx) ==
    IF ctx.panicked THEN Err(ConflictHandlerPanicked)
    ELSE IF ctx.aborted THEN Err(ConflictAborted)
    ELSE IF rc # SQLITE_OK /\ rc # SQLITE_CHANGESET_ABORT
         THEN Err(ApplyFailed(SqliteErrorCode_from_error(rc)))
    ELSE Ok("unit")

apply_impl_short_length(db, data, on_conflict) ==
    LET early == apply_precheck(USize(Len(data)))
    IN  IF early.some THEN [result |-> early.val, dbs |-> {db}, native |-> NotCalled]
        ELSE
            LET n == sqlite3changeset_apply(db, Len(data) - 1, data,
                                            ConflictContext(on_conflict))
            IN  [result |-> IF n.died THEN Err(ProcessAborted)
                            ELSE apply_result(n.rc, n.ctx),
                 dbs |-> n.dbs,
                 native |-> [rc |-> n.rc, log |-> n.log, died |-> n.died,
                             called |-> TRUE]]

apply_impl(db, data, on_conflict) ==
    LET early == apply_precheck(USize(Len(data)))
    IN  IF early.some THEN [result |-> early.val, dbs |-> {db}, native |-> NotCalled]
        ELSE
            LET n == sqlite3changeset_apply(db, Len(data), data,
                                            ConflictContext(on_conflict))
            IN  [result |-> IF n.died THEN Err(ProcessAborted)
                            ELSE apply_result(n.rc, n.ctx),
                 dbs |-> n.dbs,
                 native |-> [rc |-> n.rc, log |-> n.log, died |-> n.died,
                             called |-> TRUE]]

apply_changeset(db, changeset, on_conflict) == apply_impl(db, changeset, on_conflict)

apply_patchset(db, patchset, on_conflict) == apply_impl(db, patchset, on_conflict)

----------------------------------------------------------------------------
(* The native session object (sqlite3_session).  tabs is the session's     *)
(* table list, in the order the tables were added: by an attach call with  *)
(* a name, or, once all tables are attached, at the first write seen on    *)
(* the table; an export walks it in that order.  rec maps each cell the    *)
(* session has recorded to the row image it had before its first recorded  *)
(* write.  A table name is a sequence of text chunks and NUL bytes.  fault  *)
(* is the result code the engine's allocating entry points return (SQLITE_OK*)
(* unless memory has run out); deleted counts the calls of the teardown    *)
(* entry point on the handle.                                              *)

NativeSession ==
    [tabs |-> <<>>, all |-> FALSE, enabled |-> TRUE, rec |-> EmptyDb,
     fault |-> SQLITE_OK, deleted |-> 0]

TabSet(s) == {s.tabs[i] : i \in DOMAIN s.tabs}

sqlite3session_create(rc) ==
    [rc |-> rc, session |-> NativeSession]

sqlite3session_attach(s, name) ==
    [rc |-> s.fault,
     session |-> IF s.fault # SQLITE_OK THEN s
                 ELSE IF name.some
                      THEN IF name.val \in TabSet(s) THEN s
                           ELSE [s EXCEPT !.tabs = Append(@, name.val)]
                 ELSE [s EXCEPT !.all = TRUE]]

sqlite3session_delete(s) == [s EXCEPT !.deleted = @ + 1]

sqlite3session_enable(s, flag) ==
    IF flag >= 0 THEN [s EXCEPT !.enabled = (flag > 0)] ELSE s

sqlite3session_isempty(s) == IF DOMAIN s.rec = {} THEN 1 ELSE 0

Tracks(s, t) == s.enabled /\ (s.all \/ t \in TabSet(s))

sessionFindTable(s, t) ==
    IF t \notin TabSet(s) /\ s.all THEN [s EXCEPT !.tabs = Append(@, t)] ELSE s

xPreUpdate(s, c, img) ==
    IF ~s.enabled THEN s
    ELSE
        LET s1 == sessionFindTable(s, c[1])
        IN  IF c[1] \in TabSet(s1) /\ c \notin DOMAIN s1.rec
            THEN [s1 EXCEPT !.rec = [x \in (DOMAIN s1.rec) \cup {c} |->
                                        IF x = c THEN img ELSE s1.rec[x]]]
            ELSE s1

ChangeOf(s, db, c, pset) ==
    LET old == s.rec[c]
        new == Row(db, c)
    IN  IF old = new THEN <<>>
        ELSE IF old = {} THEN
            <<[op |-> "INSERT", cell |-> c, old |-> {}, new |-> new, pset |-> pset]>>
        ELSE IF new = {} THEN
            <<[op |-> "DELETE", cell |-> c, old |-> IF pset THEN {} ELSE old, new |-> {},
               pset |-> pset]>>
        ELSE
            <<[op |-> "UPDATE", cell |-> c,
               old |-> IF pset THEN {} ELSE {ChangedColumns(TheRow(new), TheRow(old))},
               new |-> {ChangedColumns(TheRow(old), TheRow(new))},
               pset |-> pset]>>

SessionCells(s) ==
    [i \in 1..(Len(s.tabs) * MaxKey) |->
        <<s.tabs[((i - 1) \div MaxKey) + 1], ((i - 1) % MaxKey) + 1>>]

RECURSIVE GenerateFrom(_, _, _, _)
GenerateFrom(s, db, i, pset) ==
    IF i > Len(SessionCells(s)) THEN <<>>
    ELSE (IF SessionCells(s)[i] \in DOMAIN s.rec
          THEN ChangeOf(s, db, SessionCells(s)[i], pset) ELSE <<>>)
         \o GenerateFrom(s, db, i + 1, pset)

sessionGenerateChangeset(s, db, pset) ==
    LET bytes == GenerateFrom(s, db, 1, pset)
    IN  IF s.fault # SQLITE_OK
        THEN [rc |-> s.fault, size |-> 0, buffer |-> [null |-> TRUE, bytes |-> <<>>]]
        ELSE [rc |-> SQLITE_OK,
              size |-> Len(bytes),
              buffer |-> [null |-> (DOMAIN s.rec = {}), bytes |-> bytes]]

sqlite3session_changeset(s, db) == sessionGenerateChangeset(s, db, FALSE)

sqlite3session_patchset(s, db) == sessionGenerateChangeset(s, db, TRUE)

----------------------------------------------------------------------------
(* Statements run on a connection through the query layer; each row write  *)
(* first fires the pre-update hook of the connection's live session.       *)

Hook(s, c, img) == IF s.state = "live" THEN [s EXCEPT !.native = xPreUpdate(@, c, img)] ELSE s

Execute(db, s, stmt) ==
    LET c == stmt.cell
        present == c \in DOMAIN db
    IN  CASE stmt.kind = "insert" ->
                IF present THEN [db |-> db, sess |-> s, changed |-> FALSE]
                ELSE [db |-> PutRow(db, c, stmt.val), sess |-> Hook(s, c, {}), changed |-> TRUE]
          [] stmt.kind = "replace" ->
                [db |-> PutRow(db, c, stmt.val), sess |-> Hook(s, c, Row(db, c)),
                 changed |-> TRUE]
          [] stmt.kind = "update" ->
                IF present
                THEN [db |-> PutRow(db, c, stmt.val), sess |-> Hook(s, c, Row(db, c)),
                      changed |-> TRUE]
                ELSE [db |-> db, sess |-> s, changed |-> FALSE]
          [] stmt.kind = "delete" ->
                IF present
                THEN [db |-> DelRow(db, c), sess |-> Hook(s, c, Row(db, c)), changed |-> TRUE]
                ELSE [db |-> db, sess |-> s, changed |-> FALSE]

----------------------------------------------------------------------------
(* src/src/session.rs: Session *)

NoSession == [state |-> "none", native |-> NativeSession]

new_internal_unchecked(rc) ==
    LET n == sqlite3session_create(rc)
    IN  [result |-> Ok("session"), sess |-> [state |-> "live", native |-> n.session]]

new_internal(rc) ==
    LET n == sqlite3session_create(rc)
    IN  IF n.rc # SQLITE_OK
        THEN [result |-> Err(SessionError("CreateFailed", SqliteErrorCode_from_error(n.rc))),
              sess |-> NoSession]
        ELSE [result |-> Ok("session"), sess |-> [state |-> "live", native |-> n.session]]

attach_all_existing_only(s) ==
    LET n == sqlite3session_attach(s.native, None)
    IN  IF n.rc # SQLITE_OK
        THEN [result |-> Err(SessionError("AttachFailed", SqliteErrorCode_from_error(n.rc))),
              sess |-> s, called |-> TRUE]
        ELSE [result |-> Ok("unit"),
              sess |-> [s EXCEPT !.native.tabs =
                           @ \o SelectSeq(TableSeq, LAMBDA t : t \in schema.exists
                                                               /\ t \notin TabSet(s.native))],
              called |-> TRUE]

attach_all(s) ==
    LET n == sqlite3session_attach(s.native, None)
    IN  IF n.rc # SQLITE_OK
        THEN [result |-> Err(SessionError("AttachFailed", SqliteErrorCode_from_error(n.rc))),
              sess |-> s, called |-> TRUE]
        ELSE [result |-> Ok("unit"), sess |-> [s EXCEPT !.native = n.session],
              called |-> TRUE]

CString_new_truncating(name) ==
    LET k == CHOOSE i \in 1..(Len(name) + 1) :
                 /\ i = Len(name) + 1 \/ name[i] = NUL
                 /\ \A j \in 1..(i - 1) : name[j] # NUL
    IN  Ok(SubSeq(name, 1, k - 1))

CString_new(name) ==
    IF \E i \in DOMAIN name : name[i] = NUL THEN Err("NulError") ELSE Ok(name)

attach_by_name_null_name(s, table) ==
    LET c_name == CString_new(table)
    IN  IF ~c_name.ok THEN [result |-> Err(InvalidTableName), sess |-> s, called |-> FALSE]
        ELSE
            LET n == sqlite3session_attach(s.native, None)
            IN  IF n.rc # SQLITE_OK
                THEN [result |-> Err(SessionError("AttachFailed",
                                                  SqliteErrorCode_from_error(n.rc))),
                      sess |-> s, called |-> TRUE]
                ELSE [result |-> Ok("unit"), sess |-> [s EXCEPT !.native = n.session],
                      called |-> TRUE]

attach_by_name_existing_only(s, table) ==
    LET c_name == CString_new(table)
    IN  IF ~c_name.ok THEN [result |-> Err(InvalidTableName), sess |-> s, called |-> FALSE]
        ELSE IF table \notin schema.exists
        THEN [result |-> Err(SessionError("AttachFailed", SqliteErrorCode_from_error(1))),
              sess |-> s, called |-> FALSE]
        ELSE
            LET n == sqlite3session_attach(s.native, Some(c_name.val))
            IN  IF n.rc # SQLITE_OK
                THEN [result |-> Err(SessionError("AttachFailed",
                                                  SqliteErrorCode_from_error(n.rc))),
                      sess |-> s, called |-> TRUE]
                ELSE [result |-> Ok("unit"), sess |-> [s EXCEPT !.native = n.session],
                      called |-> TRUE]

attach_by_name(s, table) ==
    LET c_name == CString_new(table)
    IN  IF ~c_name.ok THEN [result |-> Err(InvalidTableName), sess |-> s, called |-> FALSE]
        ELSE
            LET n == sqlite3session_attach(s.native, Some(c_name.val))
            IN  IF n.rc # SQLITE_OK
                THEN [result |-> Err(SessionError("AttachFailed",
                                                  SqliteErrorCode_from_error(n.rc))),
                      sess |-> s, called |-> TRUE]
                ELSE [result |-> Ok("unit"), sess |-> [s EXCEPT !.native = n.session],
                      called |-> TRUE]

is_empty_when_zero(s) == sqlite3session_isempty(s.native) = 0

is_empty(s) == sqlite3session_isempty(s.native) # 0

set_enabled_inverted(s, enabled) ==
    [s EXCEPT !.native = sqlite3session_enable(@, IF enabled THEN 0 ELSE 1)]

set_enabled_restarting(s, enabled) ==
    [s EXCEPT !.native =
        [sqlite3session_enable(@, IF enabled THEN 1 ELSE 0) EXCEPT !.rec = EmptyDb]]

set_enabled_toggling(s, enabled) ==
    [s EXCEPT !.native = sqlite3session_enable(@, IF s.native.enabled THEN 0 ELSE 1)]

set_enabled(s, enabled) ==
    [s EXCEPT !.native = sqlite3session_enable(@, IF enabled THEN 1 ELSE 0)]

export_changes_short(nat, map_error) ==
    IF nat.rc # SQLITE_OK
    THEN [result |-> Err(SessionError(map_error, SqliteErrorCode_from_error(nat.rc))),
          freed |-> 0]
    ELSE [result |-> IF nat.size <= 0 \/ nat.buffer.null THEN Ok(<<>>)
                     ELSE Ok(SubSeq(nat.buffer.bytes, 1, nat.size - 1)),
          freed |-> IF nat.buffer.null THEN 0 ELSE 1]

export_changes_whole_buffer(nat, map_error) ==
    IF nat.rc # SQLITE_OK
    THEN [result |-> Err(SessionError(map_error, SqliteErrorCode_from_error(nat.rc))),
          freed |-> 0]
    ELSE [result |-> IF nat.size <= 0 \/ nat.buffer.null THEN Ok(<<>>)
                     ELSE Ok(nat.buffer.bytes),
          freed |-> IF nat.buffer.null THEN 0 ELSE 1]

export_changes(nat, map_error) ==
    IF nat.rc # SQLITE_OK
    THEN [result |-> Err(SessionError(map_error, SqliteErrorCode_from_error(nat.rc))),
          freed |-> 0]
    ELSE [result |-> IF nat.size <= 0 \/ nat.buffer.null THEN Ok(<<>>)
                     ELSE Ok(SubSeq(nat.buffer.bytes, 1, nat.size)),
          freed |-> IF nat.buffer.null THEN 0 ELSE 1]

(* changeset and patchset take the Session by mutable reference: sess is   *)
(* the Session as the call leaves it.                                      *)
changeset_consuming(s, db) ==
    LET x == export_changes(sqlite3session_changeset(s.native, db), "ChangesetFailed")
    IN  [result |-> x.result, freed |-> x.freed,
         sess |-> IF x.result.ok THEN [s EXCEPT !.native.rec = EmptyDb] ELSE s]

changeset(s, db) ==
    LET x == export_changes(sqlite3session_changeset(s.native, db), "ChangesetFailed")
    IN  [result |-> x.result, freed |-> x.freed, sess |-> s]

patchset_as_changeset_error(s, db) ==
    LET x == export_changes(sqlite3session_patchset(s.native, db), "ChangesetFailed")
    IN  [result |-> x.result, freed |-> x.freed, sess |-> s]

patchset(s, db) ==
    LET x == export_changes(sqlite3session_patchset(s.native, db), "PatchsetFailed")
    IN  [result |-> x.result, freed |-> x.freed, sess |-> s]

drop_without_delete(s) == [s EXCEPT !.state = "released"]

drop(s) == [s EXCEPT !.state = "released", !.native = sqlite3session_delete(@)]

(* A teardown that runs after the connection was closed reads a freed      *)
(* database handle: it may go through or bring the process down.           *)
Dangling(s) == {s, [s EXCEPT !.state = "crashed"]}

----------------------------------------------------------------------------
(* Resolvers: a resolver maps the conflict kind to its outcome; "Panic" is *)
(* a resolver that fails internally.                                       *)

Always(o) == [t \in ConflictTypes |-> o]
ReplaceIfData == [t \in ConflictTypes |-> IF t = "Data" THEN "Replace" ELSE "Abort"]
ReplaceCollisions ==
    [t \in ConflictTypes |->
        IF t \in {"Data", "Conflict", "Constraint"} THEN "Replace" ELSE "Abort"]
Handlers == {Always(o) : o \in Outcomes} \cup {ReplaceIfData, ReplaceCollisions}

ItemCells == {c \in Cells : c[1] = TableSeq[1]}
PlainRows == Vals \X {1}
SrcRows == PlainRows \cup {<<1, 2>>}
Statements ==
    [kind : {"insert", "replace", "update"}, cell : ItemCells, val : PlainRows]
    \cup [kind : {"delete"}, cell : ItemCells, val : {<<1, 1>>}]
ConflictCells == {CellSeq[1], CellSeq[2]}
ConflictStatements ==
    [kind : {"insert", "replace", "update"}, cell : ConflictCells, val : SrcRows]
    \cup [kind : {"delete"}, cell : ConflictCells, val : {<<1, 1>>}]

NoOut == [fn |-> "none"]
NoRes == [fn |-> "none"]
Idle == [pc |-> "idle"]
NoAsked == [names |-> {}, all |-> FALSE]
NoLast == [fn |-> "none"]
FullSchema == [exists |-> Tables, late |-> {}]
Threads == {"main", "worker"}
OneThread == [conn |-> "main", sess |-> "main", used |-> {}]

----------------------------------------------------------------------------
(* The state machine: a source connection with one Session, the diff it    *)
(* exports, and a replica connection the diff is applied to.  Writes come  *)
(* before the export, the export before the apply.                         *)

Init ==
    /\ src = EmptyDb
    /\ rep = EmptyDb
    /\ sess = NoSession
    /\ base = EmptyDb
    /\ want = TRUE
    /\ seen = EmptyDb
    /\ wDis = {}
    /\ nW = 0
    /\ out = NoOut
    /\ res = NoRes
    /\ br = Idle
    /\ conn = "open"
    /\ asked = NoAsked
    /\ last = NoLast
    /\ schema = FullSchema
    /\ thread = OneThread

CreateSession ==
    /\ sess.state = "none"
    /\ conn = "open"
    /\ sess' = new_internal(SQLITE_OK).sess
    /\ base' = src
    /\ UNCHANGED
          <<thread, schema, src, rep, want, seen, wDis, nW, out, res, br, conn, asked, last>>

AttachByName(t) ==
    /\ sess.state = "live"
    /\ conn = "open"
    /\ LET a == attach_by_name(sess, t)
       IN  /\ sess' = a.sess
           /\ last' = [fn |-> "attach_by_name", table |-> t, result |-> a.result,
                       called |-> a.called]
    /\ asked' = [asked EXCEPT !.names = @ \cup {t}]
    /\ UNCHANGED
          <<thread, schema, src, rep, base, want, seen, wDis, nW, out, res, br, conn>>

AttachAll ==
    /\ sess.state = "live"
    /\ conn = "open"
    /\ LET a == attach_all(sess)
       IN  /\ sess' = a.sess
           /\ last' = [fn |-> "attach_all", result |-> a.result, called |-> a.called]
    /\ asked' = [asked EXCEPT !.all = TRUE]
    /\ UNCHANGED
          <<thread, schema, src, rep, base, want, seen, wDis, nW, out, res, br, conn>>

SetEnabled(b) ==
    /\ sess.state = "live"
    /\ conn = "open"
    /\ sess' = set_enabled(sess, b)
    /\ want' = b
    /\ UNCHANGED
          <<thread, schema, src, rep, base, seen, wDis, nW, out, res, br, conn, asked, last>>

Noted(h, c, before, after) ==
    [x \in (DOMAIN h) \cup {c} |->
        IF x # c THEN h[x]
        ELSE [pre |-> IF c \in DOMAIN h THEN h[c].pre ELSE before, post |-> after]]

Write(stmt, counted) ==
    /\ sess.state = "live"
    /\ conn = "open"
    /\ out = NoOut
    /\ counted => nW < MaxWrites
    /\ sess.native.all \/ stmt.cell[1] \in TabSet(sess.native)
    /\ stmt.cell[1] \in schema.exists
    /\ LET e == Execute(src, sess, stmt)
           c == stmt.cell
       IN  /\ src' = e.db
           /\ sess' = e.sess
           /\ seen' = IF e.changed /\ want THEN Noted(seen, c, Row(src, c), Row(e.db, c))
                      ELSE seen
           /\ wDis' = IF e.changed /\ ~want THEN wDis \cup {c} ELSE wDis
           /\ nW' = IF e.changed /\ counted THEN nW + 1 ELSE nW
    /\ UNCHANGED <<thread, schema, rep, base, want, out, res, br, conn, asked, last>>

ExportChangeset ==
    /\ sess.state = "live"
    /\ conn = "open"
    /\ res = NoRes
    /\ LET x == changeset(sess, src)
       IN  /\ out' = [fn |-> "changeset", r |-> x.result, empty |-> is_empty(sess)]
           /\ sess' = x.sess
    /\ UNCHANGED <<thread, schema, src, rep, base, want, seen, wDis, nW, res, br, conn, asked, last>>

ExportPatchset ==
    /\ sess.state = "live"
    /\ conn = "open"
    /\ res = NoRes
    /\ LET x == patchset(sess, src)
       IN  /\ out' = [fn |-> "patchset", r |-> x.result, empty |-> is_empty(sess)]
           /\ sess' = x.sess
    /\ UNCHANGED <<thread, schema, src, rep, base, want, seen, wDis, nW, res, br, conn, asked, last>>

ApplyChangeset(h) ==
    /\ res = NoRes
    /\ out.fn = "changeset"
    /\ out.r.ok
    /\ \E a \in {apply_changeset(rep, out.r.val, h)} :
           /\ rep' \in a.dbs
           /\ res' = [fn |-> "apply_changeset", data |-> out.r.val, handler |-> h,
                      before |-> rep, result |-> a.result, native |-> a.native]
           /\ conn' = IF a.native.died THEN "aborted" ELSE conn
    /\ UNCHANGED <<thread, schema, src, sess, base, want, seen, wDis, nW, out, br, asked, last>>

ApplyPatchset(h) ==
    /\ res = NoRes
    /\ out.fn = "patchset"
    /\ out.r.ok
    /\ \E a \in {apply_patchset(rep, out.r.val, h)} :
           /\ rep' \in a.dbs
           /\ res' = [fn |-> "apply_patchset", data |-> out.r.val, handler |-> h,
                      before |-> rep, result |-> a.result, native |-> a.native]
           /\ conn' = IF a.native.died THEN "aborted" ELSE conn
    /\ UNCHANGED <<thread, schema, src, sess, base, want, seen, wDis, nW, out, br, asked, last>>

DropSession ==
    /\ sess.state = "live"
    /\ sess' \in (IF conn = "open" THEN {drop(sess)} ELSE Dangling(drop(sess)))
    /\ UNCHANGED
          <<thread, schema, src, rep, base, want, seen, wDis, nW, out, res, br, conn, asked, last>>

Next ==
    \/ CreateSession
    \/ AttachByName(TableSeq[1])
    \/ \E b \in BOOLEAN : SetEnabled(b)
    \/ \E stmt \in Statements : Write(stmt, TRUE)
    \/ ExportChangeset
    \/ ExportPatchset
    \/ ApplyChangeset(Always("Abort"))
    \/ ApplyPatchset(Always("Abort"))

Spec == Init /\ [][Next]_vars

----------------------------------------------------------------------------
(* The conflict scenario: the replica already holds rows of its own when   *)
(* the diff arrives, and the resolver is any of Handlers.                  *)

InitConflict ==
    /\ src \in DbsOver({CellSeq[1]}, SrcRows)
    /\ rep \in DbsOver(ConflictCells, RowVals)
    /\ sess = NoSession
    /\ base = EmptyDb
    /\ want = TRUE
    /\ seen = EmptyDb
    /\ wDis = {}
    /\ nW = 0
    /\ out = NoOut
    /\ res = NoRes
    /\ br = Idle
    /\ conn = "open"
    /\ asked = NoAsked
    /\ last = NoLast
    /\ schema = FullSchema
    /\ thread = OneThread

NextConflict ==
    \/ CreateSession
    \/ AttachByName(TableSeq[1])
    \/ \E stmt \in ConflictStatements : Write(stmt, FALSE)
    \/ ExportChangeset
    \/ ExportPatchset
    \/ \E h \in Handlers : ApplyChangeset(h)
    \/ \E h \in Handlers : ApplyPatchset(h)

SpecConflict == InitConflict /\ [][NextConflict]_vars

----------------------------------------------------------------------------
(* Selective tracking (SpecTables): two tables, each attached by name, or  *)
(* all at once, or not at all; rows of either table are written whether or *)
(* not the table is attached; the replica may hold a row of its own in     *)
(* the second table.                                                       *)

FirstCells == {c \in Cells : c[2] = 1}
TableStatements ==
    [kind : {"replace"}, cell : FirstCells, val : PlainRows]
    \cup [kind : {"delete"}, cell : FirstCells, val : {<<1, 1>>}]
Attached(t) == asked.all \/ t \in asked.names

WriteAny(stmt) ==
    /\ sess.state = "live"
    /\ conn = "open"
    /\ out = NoOut
    /\ stmt.cell[1] \in schema.exists
    /\ LET e == Execute(src, sess, stmt)
           c == stmt.cell
       IN  /\ src' = e.db
           /\ sess' = e.sess
           /\ seen' = IF e.changed /\ want /\ Attached(c[1])
                      THEN Noted(seen, c, Row(src, c), Row(e.db, c))
                      ELSE seen
    /\ UNCHANGED
          <<thread, schema, rep, base, want, wDis, nW, out, res, br, conn, asked, last>>

(* CREATE TABLE on the source connection; the replica holds both tables   *)
(* from the start.                                                         *)
CreateTable(t) ==
    /\ conn = "open"
    /\ out = NoOut
    /\ t \notin schema.exists
    /\ schema' = [exists |-> schema.exists \cup {t},
                  late |-> IF sess.state = "live" /\ sess.native.all
                           THEN schema.late \cup {t} ELSE schema.late]
    /\ UNCHANGED
          <<src, rep, sess, base, want, seen, wDis, nW, out, res, br, conn, asked, last,
            thread>>

InitTables ==
    /\ src = EmptyDb
    /\ rep \in DbsOver({c \in FirstCells : c[1] = TableSeq[2]}, PlainRows)
    /\ sess = NoSession
    /\ base = EmptyDb
    /\ want = TRUE
    /\ seen = EmptyDb
    /\ wDis = {}
    /\ nW = 0
    /\ out = NoOut
    /\ res = NoRes
    /\ br = Idle
    /\ conn = "open"
    /\ asked = NoAsked
    /\ last = NoLast
    /\ schema = [exists |-> {TableSeq[1]}, late |-> {}]
    /\ thread = OneThread

NextTables ==
    \/ CreateSession
    \/ \E t \in Tables : CreateTable(t)
    \/ \E t \in Tables : AttachByName(t)
    \/ AttachAll
    \/ \E stmt \in TableStatements : WriteAny(stmt)
    \/ ExportChangeset
    \/ ExportPatchset
    \/ \E h \in {Always("Abort"), Always("Replace")} : ApplyChangeset(h)
    \/ \E h \in {Always("Abort"), Always("Replace")} : ApplyPatchset(h)

SpecTables == InitTables /\ [][NextTables]_vars

----------------------------------------------------------------------------
(* The Session's lifetime (SpecLife): creation may fail, attach is called  *)
(* with valid names and with a name holding a NUL byte, the engine may run *)
(* out of memory at any time, the Session is dropped once by its owner,    *)
(* and nothing in the Session's type keeps the connection open while the   *)
(* Session lives.                                                          *)

BadName == <<"items", NUL, "x">>
TableNames == {TableSeq[1], BadName}
CreateCodes == {SQLITE_OK, SQLITE_NOMEM, SQLITE_MISUSE}

CreateSessionWith(rc) ==
    /\ sess.state = "none"
    /\ conn = "open"
    /\ LET r == new_internal(rc)
       IN  /\ sess' = r.sess
           /\ last' = [fn |-> "new_internal", result |-> r.result]
    /\ base' = src
    /\ UNCHANGED
          <<thread, schema, src, rep, want, seen, wDis, nW, out, res, br, conn, asked>>

MemoryFault(rc) ==
    /\ sess.state = "live"
    /\ conn = "open"
    /\ sess' = [sess EXCEPT !.native.fault = rc]
    /\ UNCHANGED
          <<thread, schema, src, rep, base, want, seen, wDis, nW, out, res, br, conn, asked, last>>

CloseConnection ==
    /\ conn = "open"
    /\ conn' = "closed"
    /\ UNCHANGED
          <<thread, schema, src, rep, sess, base, want, seen, wDis, nW, out, res, br, asked, last>>

NextLife ==
    \/ \E rc \in CreateCodes : CreateSessionWith(rc)
    \/ \E t \in TableNames : AttachByName(t)
    \/ AttachAll
    \/ \E b \in BOOLEAN : SetEnabled(b)
    \/ \E rc \in {SQLITE_OK, SQLITE_NOMEM} : MemoryFault(rc)
    \/ \E stmt \in TableStatements :
          stmt.cell[1] = TableSeq[1] /\ stmt.val = <<1, 1>> /\ WriteAny(stmt)
    \/ ExportChangeset
    \/ ExportPatchset
    \/ DropSession
    \/ CloseConnection

SpecLife == Init /\ [][NextLife]_vars

----------------------------------------------------------------------------
(* Configuring a Session (SpecConfig): attach by name (valid names and a   *)
(* name holding a NUL byte), attach_all and set_enabled in any order and   *)
(* any number of times, between writes to the first table and before the   *)
(* exports, until the Session is dropped.                                  *)

ConfigNames == Tables \cup {BadName}

NextConfig ==
    \/ CreateSession
    \/ \E t \in ConfigNames : AttachByName(t)
    \/ AttachAll
    \/ \E b \in BOOLEAN : SetEnabled(b)
    \/ \E stmt \in TableStatements : stmt.cell[1] = TableSeq[1] /\ WriteAny(stmt)
    \/ ExportChangeset
    \/ ExportPatchset
    \/ DropSession

SpecConfig == Init /\ [][NextConfig]_vars

----------------------------------------------------------------------------
(* The export against an arbitrary native engine (SpecExport): the native  *)
(* export entry point may hand back any result code, any size and a null   *)
(* buffer or an allocation of MaxBuf bytes.                                *)

ByteVals == {"p", "q"}
Buffers ==
    {[null |-> TRUE, bytes |-> <<>>]}
    \cup {[null |-> FALSE, bytes |-> b] : b \in [1..MaxBuf -> ByteVals]}
NativeOutputs == [rc : {SQLITE_OK, SQLITE_NOMEM}, size : (-1)..MaxBuf, buffer : Buffers]
ExportError(fn) == IF fn = "changeset" THEN "ChangesetFailed" ELSE "PatchsetFailed"

ExportFrom(fn, nat) ==
    /\ sess.state = "live"
    /\ conn = "open"
    /\ LET x == export_changes(nat, ExportError(fn))
       IN  out' = [fn |-> fn, r |-> x.result, empty |-> is_empty(sess),
                   freed |-> x.freed, nat |-> nat]
    /\ UNCHANGED
          <<thread, schema, src, rep, sess, base, want, seen, wDis, nW, res, br, conn, asked, last>>

NextExport ==
    \/ CreateSession
    \/ \E fn \in {"changeset", "patchset"}, nat \in NativeOutputs : ExportFrom(fn, nat)
    \/ DropSession

SpecExport == Init /\ [][NextExport]_vars

----------------------------------------------------------------------------
(* The result-code mapping (SpecCodes): each step converts one 32-bit code *)
(* with from_raw and from_error and converts the variant back with to_raw. *)

ResultCodes == ((-MaxCode)..MaxCode) \cup {261, 999, 2147483647, -2147483647}

ConvertCode(n) ==
    /\ last' = [fn |-> "SqliteErrorCode", code |-> n,
                from_raw |-> SqliteErrorCode_from_raw(n),
                from_error |-> SqliteErrorCode_from_error(n),
                to_raw |-> SqliteErrorCode_to_raw(SqliteErrorCode_from_error(n))]
    /\ UNCHANGED
           <<src, rep, sess, base, want, seen, wDis, nW, out, res, br, conn, asked, schema,
             thread>>

NextCodes == \E n \in ResultCodes : ConvertCode(n)

SpecCodes == Init /\ [][NextCodes]_vars

----------------------------------------------------------------------------
(* The apply call against an arbitrary native engine (SpecBridge): the     *)
(* engine may report any conflict codes to the callback, in any number up  *)
(* to MaxConflicts, stops reporting once the callback has returned the     *)
(* Abort code, and may return any result code.  br follows one call of     *)
(* apply_impl from its entry to its result.                                *)

DataLengths == {USize(0), USize(1), C_INT_MAX, [hi |-> C_INT_MAX.hi + 1, lo |-> 0]}
ConflictCodes == 0..6
NativeResults == {0, 1, 2, 3, 4, 5, 6, 7, 8, 17, 18, 21, 26}
world ==
    <<src, rep, sess, base, want, seen, wDis, nW, out, res, conn, asked, last, schema,
      thread>>

Entered(len, h) ==
    LET early == apply_precheck(len)
    IN  IF early.some
        THEN [pc |-> "done", len |-> len, handler |-> h,
              ctx |-> ConflictContext(h), log |-> <<>>, died |-> FALSE,
              calls |-> <<>>,
              called |-> FALSE, rc |-> SQLITE_OK, result |-> early.val]
        ELSE [pc |-> "native", len |-> len, handler |-> h,
              ctx |-> ConflictContext(h), log |-> <<>>, died |-> FALSE,
              calls |-> <<>>]

BridgeStart(len, h) ==
    /\ br.pc = "idle"
    /\ br' = Entered(len, h)
    /\ UNCHANGED world

BridgeConflict(code) ==
    /\ br.pc = "native"
    /\ ~br.died
    /\ Len(br.log) < MaxConflicts
    /\ \A i \in DOMAIN br.log : br.log[i].ret # SQLITE_CHANGESET_ABORT
    /\ LET cb == conflict_callback(br.ctx, code)
       IN  br' = [br EXCEPT !.pc = IF cb.died THEN "died" ELSE @,
                            !.ctx = cb.ctx,
                            !.died = cb.died,
                            !.calls = @ \o cb.calls,
                            !.log = Append(@, [code |-> code, ret |-> cb.ret,
                                               invoked |-> cb.invoked,
                                               before |-> br.ctx])]
    /\ UNCHANGED world

BridgeReturn(rc) ==
    /\ br.pc = "native"
    /\ br' = [pc |-> "done", len |-> br.len, handler |-> br.handler,
              ctx |-> br.ctx, log |-> br.log, died |-> br.died,
              calls |-> br.calls,
              called |-> TRUE, rc |-> rc, result |-> apply_result(rc, br.ctx)]
    /\ UNCHANGED world

NextBridge ==
    \/ \E len \in DataLengths, h \in Handlers : BridgeStart(len, h)
    \/ \E code \in ConflictCodes : BridgeConflict(code)
    \/ \E rc \in NativeResults : BridgeReturn(rc)

SpecBridge == Init /\ [][NextBridge]_vars

----------------------------------------------------------------------------
(* Successive apply calls on one connection: once a call has returned,     *)
(* apply_impl may be entered again; last keeps the result of the call      *)
(* before the current one.                                                 *)

RepeatLengths == {USize(0), USize(1)}

BridgeAgain(len, h) ==
    /\ br.pc = "done"
    /\ ~br.died
    /\ br' = Entered(len, h)
    /\ last' = [fn |-> "apply_impl", result |-> br.result]
    /\ UNCHANGED
          <<src, rep, sess, base, want, seen, wDis, nW, out, res, conn, asked, schema, thread>>

NextRepeat ==
    \/ \E len \in DataLengths, h \in Handlers : BridgeStart(len, h)
    \/ \E code \in ConflictCodes : BridgeConflict(code)
    \/ \E rc \in NativeResults : BridgeReturn(rc)
    \/ \E len \in RepeatLengths, h \in Handlers : BridgeAgain(len, h)

SpecRepeat == Init /\ [][NextRepeat]_vars

----------------------------------------------------------------------------
(* Properties of the conflict scenario (SpecConflict) *)

Applied == res.fn # "none"
Log == res.native.log
CellAt(i) == res.data[Log[i].at].cell
IncomingAt(i) == res.data[Log[i].at].new
After(img, ch) == IF ch.op = "UPDATE" THEN {Overlay(TheRow(img), TheRow(ch.new))} ELSE ch.new
Resolved(i) ==
    LET t == ConflictType_from_raw(Log[i].code)
    IN  IF t.some THEN res.handler[t.val] ELSE "NotInvoked"
ConflictPositions == {Log[i].at : i \in DOMAIN Log}

(* C1, as claimed: whatever the source held when the Session was created,  *)
(* applying the exported changeset or patchset to a freshly created empty  *)
(* replica succeeds and leaves the replica equal to the source.            *)
C1_AsClaimed ==
    (Applied /\ res.before = EmptyDb) => (res.result = Ok("unit") /\ rep = src)

(* C1, amended: when the source table was empty at the creation of the     *)
(* Session, applying the exported changeset or patchset to an empty        *)
(* replica succeeds and leaves the replica's rows equal to the source's    *)
(* final rows; the changeset replica and the patchset replica are equal.   *)
C1_ReplicatesFreshSource ==
    (Applied /\ res.before = EmptyDb /\ base = EmptyDb) =>
        /\ res.result = Ok("unit")
        /\ rep = src
        /\ LET cs == changeset(sess, src).result
               ps == patchset(sess, src).result
           IN  /\ cs.ok
               /\ ps.ok
               /\ apply_changeset(EmptyDb, cs.val, res.handler).dbs = {src}
               /\ apply_patchset(EmptyDb, ps.val, res.handler).dbs = {src}

C1_Witness ==
    /\ Applied
    /\ res.before = EmptyDb
    /\ base = EmptyDb
    /\ DOMAIN src = ItemCells
    /\ Len(res.data) = MaxKey

(* C2, as claimed: a resolver that panics on a conflict is caught in the   *)
(* callback: the callback returns the Abort code for that change, nothing  *)
(* leaves the callback as a panic, the apply call returns                  *)
(* ConflictHandlerPanicked and the caller continues.                       *)
C2_AsClaimed ==
    Applied =>
        \A i \in DOMAIN Log :
            Resolved(i) \in Failures =>
                /\ Log[i].ret = SQLITE_CHANGESET_ABORT
                /\ ~res.native.died
                /\ res.result = Err(ConflictHandlerPanicked)
                /\ conn = "open"

(* C4: when the target holds a row that conflicts with an incoming change  *)
(* and the resolver returns Abort on that first conflict, the apply call   *)
(* returns ConflictAborted and the row keeps its pre-apply values.         *)
C4_AbortKeepsRow ==
    (Applied /\ Log # <<>> /\ Resolved(1) = "Abort" /\ CellAt(1) \in DOMAIN res.before) =>
        /\ res.result = Err(ConflictAborted)
        /\ Row(rep, CellAt(1)) = Row(res.before, CellAt(1))

C4_Witness ==
    /\ Applied
    /\ Log # <<>>
    /\ Resolved(1) = "Abort"
    /\ CellAt(1) \in DOMAIN res.before
    /\ Row(res.before, CellAt(1)) # IncomingAt(1)

(* C5: when every conflict of the call is an incoming insert colliding     *)
(* with an existing target row on the primary key and the resolver returns *)
(* Replace, the apply call succeeds and each such row afterwards holds the *)
(* incoming row's values.                                                  *)
C5_ReplaceTakesIncoming ==
    (Applied /\ Log # <<>>
        /\ \A i \in DOMAIN Log :
              res.data[Log[i].at].op = "INSERT" /\ Resolved(i) = "Replace") =>
        /\ res.result = Ok("unit")
        /\ \A i \in DOMAIN Log : Row(rep, CellAt(i)) = IncomingAt(i)

C5_Witness ==
    /\ Applied
    /\ Log # <<>>
    /\ \A i \in DOMAIN Log : res.data[Log[i].at].op = "INSERT" /\ Resolved(i) = "Replace"
    /\ Row(res.before, CellAt(1)) # IncomingAt(1)

(* C6: when the resolver returns Omit for every conflict, the apply call   *)
(* succeeds, each conflicting target row keeps its pre-apply values, and   *)
(* the remaining changes of the diff are applied.                          *)
C6_OmitKeepsTarget ==
    (Applied /\ Log # <<>> /\ \A i \in DOMAIN Log : Resolved(i) = "Omit") =>
        /\ res.result = Ok("unit")
        /\ \A i \in DOMAIN Log : Row(rep, CellAt(i)) = Row(res.before, CellAt(i))
        /\ \A j \in DOMAIN res.data :
              j \notin ConflictPositions =>
                Row(rep, res.data[j].cell) = After(Row(res.before, res.data[j].cell), res.data[j])

C6_Witness ==
    /\ Applied
    /\ Log # <<>>
    /\ \A i \in DOMAIN Log : Resolved(i) = "Omit"
    /\ Log[1].at = 1
    /\ Len(res.data) > Len(Log)
    /\ Row(res.before, CellAt(1)) # IncomingAt(1)
    /\ rep # res.before

(* C8: applying an empty diff returns success without calling the native   *)
(* apply entry point, without invoking the resolver, and leaves the target *)
(* unchanged, whatever the target holds and whatever the resolver is.      *)
C8_EmptyDiffNoop ==
    (Applied /\ res.data = <<>>) =>
        /\ res.result = Ok("unit")
        /\ ~res.native.called
        /\ Log = <<>>
        /\ rep = res.before

C8_Witness ==
    /\ Applied
    /\ res.data = <<>>
    /\ res.before # EmptyDb
    /\ res.handler = Always("Panic")

----------------------------------------------------------------------------
(* Properties of recording and export (Spec).  seen holds, for each row    *)
(* written while tracking was requested enabled, its image before the      *)
(* first such write and after the last one; wDis holds the rows written    *)
(* while tracking was requested disabled.                                  *)

Exported == out.fn # "none"
Diff == out.r.val
EnabledRow(c) == IF c \in DOMAIN seen THEN seen[c].post ELSE {}
DiffIsEnabledWrites ==
    /\ out.r.ok
    /\ \A i \in DOMAIN Diff :
          Diff[i].cell \in DOMAIN seen
          /\ After(seen[Diff[i].cell].pre, Diff[i]) = seen[Diff[i].cell].post
    /\ \A c \in DOMAIN seen :
          seen[c].pre # seen[c].post => \E i \in DOMAIN Diff : Diff[i].cell = c
ReplicaIsEnabledRows ==
    /\ res.result = Ok("unit")
    /\ \A c \in Cells : Row(rep, c) = EnabledRow(c)

(* C9, as claimed: for any interleaving of writes with setEnabled calls on *)
(* an attached Session, the exported diff contains exactly the writes made *)
(* while tracking was enabled, and a replica built from the diff holds the *)
(* enabled-period rows and none of the disabled-period rows.               *)
C9_AsClaimed ==
    /\ Exported => DiffIsEnabledWrites
    /\ Applied => ReplicaIsEnabledRows

(* C9, amended: on a source whose tracked table was empty when the Session *)
(* was created, and provided no row is written both while tracking is      *)
(* enabled and while it is disabled, the exported diff contains exactly    *)
(* the writes made while enabled, and a replica built from the diff holds  *)
(* the enabled-period rows and none of the disabled-period rows.           *)
C9_EnabledWritesOnly ==
    (base = EmptyDb /\ (DOMAIN seen) \cap wDis = {}) =>
        /\ Exported => DiffIsEnabledWrites
        /\ Applied => ReplicaIsEnabledRows

C9_Witness ==
    /\ Applied
    /\ base = EmptyDb
    /\ (DOMAIN seen) \cap wDis = {}
    /\ \E c \in wDis : Row(src, c) # {} /\ Row(rep, c) = {}
    /\ \E c \in DOMAIN seen : Row(rep, c) # {}
    /\ want

(* C10, as claimed: a Session with no recorded write reports isEmpty true  *)
(* and its export returns success with an empty buffer; once a write to an *)
(* attached table has been recorded while enabled, isEmpty reports false   *)
(* and the export is non-empty.                                            *)
C10_AsClaimed ==
    Exported =>
        /\ seen = EmptyDb => (out.empty /\ out.r = Ok(<<>>))
        /\ seen # EmptyDb => (~out.empty /\ out.r.ok /\ out.r.val # <<>>)

(* C10, amended: a Session with no recorded write reports isEmpty true and *)
(* its export returns success with an empty buffer; once a write has been  *)
(* recorded, isEmpty reports false, and the export succeeds and is         *)
(* non-empty exactly when some recorded row differs, at export, from its   *)
(* image before its first recorded write.                                  *)
C10_EmptyUntilNetChange ==
    Exported =>
        /\ seen = EmptyDb => (out.empty /\ out.r = Ok(<<>>))
        /\ seen # EmptyDb => ~out.empty
        /\ out.r.ok
        /\ out.r.val # <<>> <=> \E c \in DOMAIN seen : seen[c].pre # Row(src, c)

C10_Witness ==
    /\ Exported
    /\ seen # EmptyDb
    /\ ~out.empty
    /\ out.r = Ok(<<>>)
    /\ src = EmptyDb

----------------------------------------------------------------------------
(* Properties of the apply call against an arbitrary engine (SpecBridge) *)

Finished == br.pc = "done"
BrResolved(i) ==
    LET t == ConflictType_from_raw(br.log[i].code)
    IN  IF t.some THEN br.handler[t.val] ELSE "NotInvoked"
ResolverAborted == \E i \in DOMAIN br.log : BrResolved(i) = "Abort"
ResolverFailed == \E i \in DOMAIN br.log : BrResolved(i) \in Failures

(* C3, as claimed: if the resolver's outcome is Abort at least once during *)
(* one apply call, returned explicitly or implied by the resolver's own    *)
(* failure, the apply call fails with ConflictAborted, whatever the native *)
(* apply call returns.                                                     *)
C3_AsClaimed ==
    (Finished /\ (ResolverAborted \/ ResolverFailed)) =>
        br.result = Err(ConflictAborted)

(* C3, amended: if the resolver returned Abort at least once and never     *)
(* failed, the apply call fails with ConflictAborted; if the resolver      *)
(* failed at least once, the apply call never returns ConflictAborted: it  *)
(* fails with ConflictHandlerPanicked, or does not return at all when the  *)
(* process is aborted in the callback; all of it whatever the native apply *)
(* call returns.                                                           *)
C3_AbortFailsTheCall ==
    /\ Finished =>
          /\ (ResolverAborted /\ ~ResolverFailed) => br.result = Err(ConflictAborted)
          /\ ResolverFailed => br.result = Err(ConflictHandlerPanicked)
    /\ br.pc = "died" => (ResolverFailed /\ br.died)

C3_Witness ==
    /\ Finished
    /\ br.rc = SQLITE_OK
    /\ ResolverAborted
    /\ ~ResolverFailed
    /\ BrResolved(1) = "Replace"

(* C7: for every native result code other than success, when the resolver  *)
(* neither aborted nor failed, the apply call returns ApplyFailed carrying *)
(* the mapping of that code; the apply call on a non-empty input returns   *)
(* success only if the native apply call returned the success code.        *)
C7_AsClaimed ==
    (Finished /\ br.called) =>
        /\ (br.rc # SQLITE_OK /\ ~br.ctx.aborted /\ ~br.ctx.panicked) =>
              br.result = Err(ApplyFailed(SqliteErrorCode_from_error(br.rc)))
        /\ br.result = Ok("unit") => br.rc = SQLITE_OK

----------------------------------------------------------------------------
(* Properties of selective tracking (SpecTables) *)

(* C11: a Session records only writes to tables attached to it: a write to *)
(* a table never attached (by name or by attach_all) never appears in the  *)
(* exported diff, a Session with no attachment exports an empty diff       *)
(* whatever was written, and applying the diff leaves the replica's        *)
(* non-attached tables unchanged.                                          *)
C11_OnlyAttachedTables ==
    /\ Exported =>
          (out.r.ok /\ \A i \in DOMAIN out.r.val : Attached(out.r.val[i].cell[1]))
    /\ (Exported /\ asked = NoAsked) => out.r = Ok(<<>>)
    /\ Applied =>
          \A c \in Cells : ~Attached(c[1]) => Row(rep, c) = Row(res.before, c)

C11_Witness ==
    /\ Applied
    /\ asked = [names |-> {TableSeq[1]}, all |-> FALSE]
    /\ res.result = Ok("unit")
    /\ res.data # <<>>
    /\ \E c \in FirstCells :
          /\ c[1] = TableSeq[2]
          /\ Row(src, c) # {}
          /\ Row(rep, c) # Row(src, c)
          /\ Row(rep, c) # {}

----------------------------------------------------------------------------
(* Properties of the Session's lifetime (SpecLife) *)

(* C12: for every successfully created Session the native teardown entry   *)
(* point is called exactly once over its lifetime, whatever attach, enable *)
(* and export calls and whatever errors came in between: never before the  *)
(* release, once at the release, and Released is terminal, so nothing is   *)
(* called on the handle afterwards.                                        *)
C12_TeardownOnce ==
    /\ [](sess.state \in {"none", "live"} => sess.native.deleted = 0)
    /\ [](sess.state = "released" => sess.native.deleted = 1)
    /\ [][sess.state = "released" => sess' = sess]_vars

C12_Witness ==
    /\ sess.state = "released"
    /\ last.fn = "attach_by_name"
    /\ ~last.result.ok
    /\ Exported
    /\ ~out.r.ok
    /\ ~want

(* C13: in every reachable state a live Session's owning connection is     *)
(* still open: the handle is released strictly before the connection, and  *)
(* the violating order is unreachable.                                     *)
C13_AsClaimed ==
    sess.state = "live" => conn = "open"

(* C15: when the native export returns a non-success result code,          *)
(* changeset() returns ChangesetFailed and patchset() returns              *)
(* PatchsetFailed, each carrying the mapping of that code, and no bytes    *)
(* are returned.                                                           *)
C15_ExportErrorTagged ==
    [][ /\ (ExportChangeset /\ sess.native.fault # SQLITE_OK) =>
              out'.r = Err(SessionError("ChangesetFailed",
                                        SqliteErrorCode_from_error(sess.native.fault)))
        /\ (ExportPatchset /\ sess.native.fault # SQLITE_OK) =>
              out'.r = Err(SessionError("PatchsetFailed",
                                        SqliteErrorCode_from_error(sess.native.fault)))
      ]_vars

C15_Witness ==
    /\ Exported
    /\ out.fn = "patchset"
    /\ out.r = Err(SessionError("PatchsetFailed", KnownCode("NoMemory")))
    /\ DOMAIN sess.native.rec # {}
    /\ src # EmptyDb

(* C17: attach_by_name with a name holding a NUL byte returns              *)
(* InvalidTableName without calling the native attach entry point and      *)
(* leaves the Session (attached tables, enabled flag, recorded changes)    *)
(* unchanged and live.                                                     *)
C17_NulNameRejected ==
    [][AttachByName(BadName) =>
          /\ last'.result = Err(InvalidTableName)
          /\ ~last'.called
          /\ sess' = sess
          /\ sess'.state = "live"
      ]_vars

C17_Witness ==
    /\ last.fn = "attach_by_name"
    /\ last.table = BadName
    /\ last.result = Err(InvalidTableName)
    /\ sess.state = "live"
    /\ sess.native.tabs = <<>>
    /\ Exported
    /\ out.r.ok

----------------------------------------------------------------------------
(* Properties of the export against an arbitrary engine (SpecExport) *)

ShouldFree == IF out.nat.buffer.null THEN 0 ELSE 1

C16_CopiesExactlySize ==
    (Exported /\ out.nat.rc = SQLITE_OK) =>
        IF out.nat.size <= 0 \/ out.nat.buffer.null
        THEN out.r = Ok(<<>>)
        ELSE /\ out.r.ok
             /\ Len(out.r.val) = out.nat.size
             /\ \A i \in 1..out.nat.size : out.r.val[i] = out.nat.buffer.bytes[i]

C16_Witness ==
    /\ Exported
    /\ out.nat.rc = SQLITE_OK
    /\ ~out.nat.buffer.null
    /\ out.nat.size > 0
    /\ out.nat.size < Len(out.nat.buffer.bytes)
    /\ out.r.ok
    /\ Len(out.r.val) = out.nat.size

----------------------------------------------------------------------------
(* Further properties of the apply call (SpecBridge, SpecConflict) *)

TooLong == br.len.hi >= 32768
UnknownCode(i) == br.log[i].code \notin 1..5

(* C18: if the diff's byte length does not fit a signed 32-bit integer the *)
(* apply call fails with ApplyFailed carrying the SQLITE_TOOBIG code,      *)
(* before the native apply entry point is called and without invoking the  *)
(* resolver; a length that does not fit is never passed to the engine.     *)
C18_TooBigFailsFast ==
    /\ (Finished /\ TooLong) =>
          /\ br.result = Err(ApplyFailed(Unknown(18)))
          /\ ~br.called
          /\ br.log = <<>>
    /\ br.pc = "native" => ~TooLong

C18_Witness ==
    /\ Finished
    /\ TooLong
    /\ br.result = Err(ApplyFailed(SqliteErrorCode_from_error(SQLITE_TOOBIG)))
    /\ br.handler = Always("Replace")

(* C20: when the engine reports a conflict code outside 1..5 the callback  *)
(* returns the Abort code and sets the aborted flag, never returns Omit or *)
(* Replace, does not consult the resolver or set the resolver-failed flag, *)
(* and the enclosing apply call fails with ConflictAborted.                *)
C20_UnknownCodeAborts ==
    br.pc \in {"native", "done"} =>
        \A i \in DOMAIN br.log :
            UnknownCode(i) =>
                /\ br.log[i].ret = 2
                /\ ~br.log[i].invoked
                /\ br.ctx.aborted
                /\ ~br.ctx.panicked
                /\ Finished => br.result = Err(ConflictAborted)

C20_Witness ==
    /\ Finished
    /\ Len(br.log) = 2
    /\ UnknownCode(2)
    /\ br.handler = Always("Replace")
    /\ br.rc = SQLITE_OK
    /\ br.result = Err(ConflictAborted)

----------------------------------------------------------------------------
(* Properties of the conflict callback (SpecBridge).  br.calls is the      *)
(* sequence of conflict kinds the resolver was invoked with during the     *)
(* apply call; each entry of br.log holds the code the engine reported,    *)
(* the value the callback returned and the context before the invocation.  *)

KindNames == <<"Data", "NotFound", "Conflict", "Constraint", "ForeignKey">>
NativeCode(o) == CASE o = "Omit" -> 0 [] o = "Replace" -> 1 [] o = "Abort" -> 2
KnownEntries == SelectSeq(br.log, LAMBDA e : e.code \in 1..5)
InBridge == br.pc \in {"native", "done"}

(* C21: for each conflict the engine reports with a known code (1..5) the  *)
(* resolver is invoked exactly once with the matching kind (Data,          *)
(* NotFound, Conflict, Constraint, ForeignKey) and the callback returns    *)
(* the resolver's decision translated to its native code (Omit 0, Replace  *)
(* 1, Abort 2); the resolver is never invoked when the engine reports no   *)
(* conflict, so the kinds it was invoked with are exactly, in order, the   *)
(* kinds of the known codes reported.                                      *)
C21_ResolverDecides ==
    InBridge =>
        /\ br.calls = [i \in DOMAIN KnownEntries |-> KindNames[KnownEntries[i].code]]
        /\ \A i \in DOMAIN br.log :
              br.log[i].code \in 1..5 =>
                  LET o == br.handler[KindNames[br.log[i].code]]
                  IN  /\ br.log[i].invoked
                      /\ o \in ConflictActions => br.log[i].ret = NativeCode(o)
        /\ (br.log = <<>> \/ \A i \in DOMAIN br.log : br.log[i].code = 0) =>
              br.calls = <<>>

C21_Witness ==
    /\ Finished
    /\ br.handler = ReplaceIfData
    /\ br.calls = <<"Data", "ForeignKey">>
    /\ br.log[1].ret = 1
    /\ br.log[2].ret = 2

----------------------------------------------------------------------------
(* Properties of attaching against the schema (SpecTables): the source     *)
(* starts with its first table only, the second is created later.          *)

(* C22: attaching a table name that does not exist in the schema succeeds  *)
(* (returns no error) on a live Session; the absence of the table does not *)
(* surface at attach time and the Session stays live.                      *)
C22_AttachNonexistentSucceeds ==
    [][\A t \in Tables :
          (AttachByName(t) /\ t \notin schema.exists) =>
              /\ last'.result = Ok("unit")
              /\ last'.called
              /\ sess'.state = "live"
      ]_vars

C22_Witness ==
    /\ last.fn = "attach_by_name"
    /\ last.table = TableSeq[2]
    /\ last.result = Ok("unit")
    /\ TableSeq[2] \notin schema.exists
    /\ Exported
    /\ out.r.ok
    /\ out.r.val # <<>>

AttachedFresh ==
    /\ asked.all
    /\ \A c \in DOMAIN src : c \in DOMAIN seen
    /\ \A c \in DOMAIN seen : seen[c].pre = {}

(* C23: after attach_all succeeds, writes to every table of the schema are *)
(* recorded while tracking is enabled, for tables that existed at attach   *)
(* time and for tables created afterwards: the exported diff holds exactly *)
(* the rows written since, and applied to an empty replica with the same   *)
(* tables it reproduces the rows of all of them.                           *)
C23_AttachAllTracksEveryTable ==
    /\ (Exported /\ asked.all) => DiffIsEnabledWrites
    /\ (Applied /\ AttachedFresh /\ res.before = EmptyDb) =>
          (res.result = Ok("unit") /\ rep = src)

C23_Witness ==
    /\ Applied
    /\ AttachedFresh
    /\ asked.names = {}
    /\ res.before = EmptyDb
    /\ schema.late = {TableSeq[2]}
    /\ DOMAIN src = FirstCells
    /\ rep = src

----------------------------------------------------------------------------
(* Frame of set_enabled and algebra of the configuration calls *)

(* C24: set_enabled never fails and changes only whether subsequent writes *)
(* are recorded: the recorded changes, the attached tables, the value of   *)
(* is_empty and the diff either export would return are the same right     *)
(* before and right after any set_enabled call, and the Session stays      *)
(* live.                                                                   *)
C24_SetEnabledFrame ==
    [][\A b \in BOOLEAN :
          SetEnabled(b) =>
              /\ sess'.state = "live"
              /\ sess'.native.enabled = b
              /\ sess'.native.rec = sess.native.rec
              /\ sess'.native.tabs = sess.native.tabs
              /\ sess'.native.all = sess.native.all
              /\ is_empty(sess') = is_empty(sess)
              /\ changeset(sess', src').result = changeset(sess, src).result
              /\ patchset(sess', src').result = patchset(sess, src).result
      ]_vars

C24_Witness ==
    /\ ~want
    /\ ~sess.native.enabled
    /\ DOMAIN sess.native.rec # {}
    /\ \E c \in DOMAIN sess.native.rec : Row(src, c) # sess.native.rec[c]
    /\ Exported
    /\ out.r.ok
    /\ out.r.val # <<>>

(* C25: on a Session that is not released, attach and enable/disable are   *)
(* idempotent and interleave freely: attaching the same table (or          *)
(* attach_all) a second time leaves the Session as it was, set_enabled(b)  *)
(* a second time leaves it as it was, every order of the calls is          *)
(* accepted, and the attached set and the enabled flag are those           *)
(* determined by the set of attaches and the last set_enabled.             *)
C25_ConfigIdempotentCommutes ==
    /\ [](sess.state = "live" =>
            /\ asked.names \cap Tables \subseteq TabSet(sess.native)
            /\ ~asked.all => TabSet(sess.native) = asked.names \cap Tables
            /\ sess.native.all = asked.all
            /\ sess.native.enabled = want)
    /\ []((last.fn = "attach_all" \/ (last.fn = "attach_by_name" /\ last.table \in Tables))
            => last.result = Ok("unit"))
    /\ [][\A t \in Tables :
            (AttachByName(t) /\ t \in asked.names) => sess' = sess]_vars
    /\ [][(AttachAll /\ asked.all) => sess' = sess]_vars
    /\ [][\A b \in BOOLEAN : (SetEnabled(b) /\ want = b) => sess' = sess]_vars

C25_Witness ==
    /\ sess.state = "live"
    /\ asked = [names |-> ConfigNames, all |-> TRUE]
    /\ last.fn = "attach_by_name"
    /\ last.table = TableSeq[1]
    /\ ~want
    /\ ~sess.native.enabled
    /\ TabSet(sess.native) = Tables

----------------------------------------------------------------------------
(* Creation of the Session (SpecLife) *)

(* C26: creating a Session fails exactly when the native create entry      *)
(* point returns a non-success code, and then returns CreateFailed         *)
(* carrying the mapping of that code; on failure no Session value exists,  *)
(* so the native teardown is never called for the failed creation.         *)
C26_CreateFailsOnNativeError ==
    /\ [][\A rc \in CreateCodes :
            CreateSessionWith(rc) =>
                IF rc = SQLITE_OK
                THEN last'.result = Ok("session") /\ sess'.state = "live"
                ELSE /\ last'.result =
                            Err(SessionError("CreateFailed", SqliteErrorCode_from_error(rc)))
                     /\ sess'.state = "none"
                     /\ sess'.native.deleted = 0]_vars
    /\ [](sess.state = "none" => (sess.native.deleted = 0 /\ ~ENABLED DropSession))

C26_Witness ==
    /\ last.fn = "new_internal"
    /\ last.result = Err(SessionError("CreateFailed", KnownCode("NoMemory")))
    /\ sess.state = "none"
    /\ sess.native.deleted = 0
    /\ conn = "closed"

----------------------------------------------------------------------------
(* Properties of the result-code mapping (SpecCodes) *)

NamedCodes ==
    (1 :> "Error") @@ (2 :> "Internal") @@ (3 :> "Permission") @@ (5 :> "Busy")
    @@ (6 :> "Locked") @@ (7 :> "NoMemory") @@ (8 :> "ReadOnly") @@ (17 :> "Schema")
    @@ (21 :> "Misuse")

(* C27: the mapping between native result codes and SqliteErrorCode loses  *)
(* no information: for every code n, from_error(n).to_raw() = n;           *)
(* from_raw(n) is None exactly when n = 0 and otherwise Some(from_error(n));*)
(* codes 1, 2, 3, 5, 6, 7, 8, 17, 21 map to their named variants and every *)
(* other code to Unknown(code).                                            *)
C27_CodeRoundTrip ==
    last.fn = "SqliteErrorCode" =>
        /\ last.to_raw = last.code
        /\ (last.from_raw = None) <=> (last.code = 0)
        /\ last.code # 0 => last.from_raw = [some |-> TRUE, val |-> last.from_error]
        /\ last.from_error =
              IF last.code \in DOMAIN NamedCodes
              THEN [tag |-> NamedCodes[last.code]]
              ELSE [tag |-> "Unknown", code |-> last.code]

C27_Witness ==
    /\ last.fn = "SqliteErrorCode"
    /\ last.code = 261
    /\ last.from_error = Unknown(261)
    /\ last.to_raw = 261

----------------------------------------------------------------------------
(* Threads (SpecThreads).  A value can be handed to another thread only if *)
(* its type is Send.  The Session is not (a raw pointer and a              *)
(* PhantomData<Rc<()>> field), the connection type of the query layer is,  *)
(* and the Session holds no borrow of the connection.  A Session call      *)
(* touches the native session object on the thread that holds the Session; *)
(* a row write runs the engine's recording hook for the connection's live  *)
(* session on the thread that holds the connection.                        *)

SessionFields == {"*mut sqlite3_session", "PhantomData<Rc<()>>"}
SendTypes == {"SqliteConnection", "Vec<u8>"}
IsSend(v) ==
    CASE v = "conn" -> "SqliteConnection" \in SendTypes
      [] v = "sess" -> SessionFields \subseteq SendTypes

Touched(t) == [thread EXCEPT !.used = @ \cup {t}]

ThreadCreate ==
    /\ sess.state = "none"
    /\ conn = "open"
    /\ sess' = new_internal(SQLITE_OK).sess
    /\ base' = src
    /\ thread' = [thread EXCEPT !.sess = thread.conn, !.used = {thread.conn}]
    /\ UNCHANGED <<src, rep, want, seen, wDis, nW, out, res, br, conn, asked, last, schema>>

HandOver(v, t) ==
    /\ conn = "open"
    /\ v = "sess" => sess.state = "live"
    /\ IsSend(v)
    /\ thread[v] # t
    /\ thread' = [thread EXCEPT ![v] = t]
    /\ UNCHANGED
          <<src, rep, sess, base, want, seen, wDis, nW, out, res, br, conn, asked, last,
            schema>>

ThreadAttachAll ==
    /\ sess.state = "live"
    /\ ~asked.all
    /\ LET a == attach_all(sess)
       IN  /\ sess' = a.sess
           /\ last' = [fn |-> "attach_all", result |-> a.result, called |-> a.called]
    /\ asked' = [asked EXCEPT !.all = TRUE]
    /\ thread' = Touched(thread.sess)
    /\ UNCHANGED <<src, rep, base, want, seen, wDis, nW, out, res, br, conn, schema>>

ThreadWrite(stmt) ==
    /\ conn = "open"
    /\ out = NoOut
    /\ LET e == Execute(src, sess, stmt)
       IN  /\ src' = e.db
           /\ sess' = e.sess
           /\ thread' = IF e.changed /\ sess.state = "live"
                         THEN Touched(thread.conn) ELSE thread
    /\ UNCHANGED <<rep, base, want, seen, wDis, nW, out, res, br, conn, asked, last, schema>>

ThreadExport ==
    /\ sess.state = "live"
    /\ LET x == changeset(sess, src)
       IN  /\ out' = [fn |-> "changeset", r |-> x.result, empty |-> is_empty(sess)]
           /\ sess' = x.sess
    /\ thread' = Touched(thread.sess)
    /\ UNCHANGED <<src, rep, base, want, seen, wDis, nW, res, br, conn, asked, last, schema>>

ThreadDrop ==
    /\ sess.state = "live"
    /\ sess' = drop(sess)
    /\ thread' = Touched(thread.sess)
    /\ UNCHANGED
          <<src, rep, base, want, seen, wDis, nW, out, res, br, conn, asked, last, schema>>

NextThreads ==
    \/ ThreadCreate
    \/ \E v \in {"conn", "sess"}, t \in Threads : HandOver(v, t)
    \/ ThreadAttachAll
    \/ \E stmt \in TableStatements : ThreadWrite(stmt)
    \/ ThreadExport
    \/ ThreadDrop

SpecThreads == Init /\ [][NextThreads]_vars

(* C28: a Session and its connection stay on the thread that created them: *)
(* in no reachable state is the connection of a live Session held by       *)
(* another thread than the Session, and the native session object is never *)
(* touched by a thread other than the creating one, neither concurrently   *)
(* with it nor after a hand-over.                                          *)
C28_AsClaimed ==
    sess.state \in {"live", "released"} =>
        /\ sess.state = "live" => thread.conn = thread.sess
        /\ thread.used = {thread.sess}

----------------------------------------------------------------------------
(* The flags of the conflict context (SpecBridge) *)

(* C29: resolver failure takes precedence in the apply result: whenever    *)
(* the resolver-failed flag was set during an apply call, the call returns *)
(* ConflictHandlerPanicked and not ConflictAborted or ApplyFailed,         *)
(* whatever the native result code and although the aborted flag is also   *)
(* set; ConflictAborted is returned only when the aborted flag is set and  *)
(* the resolver-failed flag is not.                                        *)
C29_FailureTakesPrecedence ==
    (Finished /\ br.called) =>
        /\ br.ctx.panicked =>
              (br.ctx.aborted /\ br.result = [ok |-> FALSE,
                                              err |-> [tag |-> "ConflictHandlerPanicked"]])
        /\ br.result = [ok |-> FALSE, err |-> [tag |-> "ConflictAborted"]] =>
              (br.ctx.aborted /\ ~br.ctx.panicked)

C29_Witness ==
    /\ Finished
    /\ br.ctx.panicked
    /\ br.ctx.aborted
    /\ br.rc = SQLITE_NOMEM
    /\ br.handler = Always("Panic")
    /\ br.log # <<>>
    /\ br.result = Err(ConflictHandlerPanicked)

CtxAfter(i) == IF i < Len(br.log) THEN br.log[i + 1].before ELSE br.ctx

(* C30, as claimed: after every invocation of the conflict callback, for   *)
(* every conflict code and every resolver outcome (Omit, Replace, Abort or *)
(* failure): the returned value is one of the resolution codes 0, 1, 2;    *)
(* the aborted flag is set if and only if this or an earlier invocation of *)
(* the same apply call returned Abort; the resolver-failed flag implies    *)
(* the aborted flag; and neither flag is ever cleared within the call,     *)
(* also by an invocation that comes after an abort.                        *)
C30_AsClaimed ==
    InBridge =>
        /\ \A i \in DOMAIN br.log :
              /\ br.log[i].ret \in {0, 1, 2}
              /\ CtxAfter(i).aborted <=> \E j \in 1..i : br.log[j].ret = 2
              /\ CtxAfter(i).panicked => CtxAfter(i).aborted
              /\ br.log[i].before.aborted => CtxAfter(i).aborted
              /\ br.log[i].before.panicked => CtxAfter(i).panicked
        /\ br.log = <<>> => (~br.ctx.aborted /\ ~br.ctx.panicked)
        /\ br.pc = "native" =>
              \A code \in ConflictCodes :
                  LET cb == conflict_callback(br.ctx, code)
                  IN  /\ cb.ret \in {0, 1, 2}
                      /\ cb.ctx.aborted <=> (br.ctx.aborted \/ cb.ret = 2)
                      /\ cb.ctx.panicked => cb.ctx.aborted
                      /\ br.ctx.panicked => cb.ctx.panicked

----------------------------------------------------------------------------
(* Incremental replication (SpecIncremental): successive Sessions on the   *)
(* source, each attached to the first table, written under, exported and   *)
(* applied to the replica with an always-Abort resolver, then dropped      *)
(* before the next Session is created.                                     *)

NextSession ==
    /\ sess.state = "live"
    /\ res # NoRes
    /\ drop(sess).native.deleted = 1
    /\ sess' = NoSession
    /\ out' = NoOut
    /\ res' = NoRes
    /\ seen' = EmptyDb
    /\ asked' = NoAsked
    /\ last' = NoLast
    /\ UNCHANGED <<src, rep, base, want, wDis, nW, br, conn, schema, thread>>

NextIncremental ==
    \/ CreateSession
    \/ AttachByName(TableSeq[1])
    \/ \E stmt \in Statements : Write(stmt, TRUE)
    \/ ExportChangeset
    \/ ExportPatchset
    \/ ApplyChangeset(Always("Abort"))
    \/ ApplyPatchset(Always("Abort"))
    \/ NextSession

SpecIncremental == Init /\ [][NextIncremental]_vars

(* C31: applying a Session's exported diff to a replica whose tracked      *)
(* table equals the source's at the moment the Session was created raises  *)
(* no conflict (the resolver is never invoked, so the always-Abort         *)
(* resolver succeeds) and leaves the replica equal to the source at export *)
(* time, for inserts, updates and deletes alike; hence each later Session  *)
(* again starts from a replica equal to the source, and applying the diffs *)
(* of successive Sessions in order keeps the replica equal to the source.  *)
C31_IncrementalReplication ==
    /\ (Applied /\ res.before = base) =>
          /\ res.result = Ok("unit")
          /\ Log = <<>>
          /\ rep = src
    /\ (sess.state = "live" /\ ~Applied) => rep = base

C31_Witness ==
    /\ Applied
    /\ base # EmptyDb
    /\ res.before = base
    /\ res.handler = Always("Abort")
    /\ Len(res.data) = 2
    /\ {res.data[i].op : i \in DOMAIN res.data} = {"UPDATE", "DELETE"}
    /\ rep = src

----------------------------------------------------------------------------
(* Frame of the exports (SpecConfig) *)

SameChanges(a, b) ==
    /\ Len(a) = Len(b)
    /\ \A i \in DOMAIN a :
          a[i].cell = b[i].cell /\ a[i].op = b[i].op /\ a[i].new = b[i].new

(* C32: exporting is read-only on the Session: changeset() and patchset()  *)
(* do not clear or alter the recorded changes, the attached set or the     *)
(* enabled flag, so two exports of the same form with no write in between  *)
(* return identical bytes, is_empty is unchanged by an export, and a       *)
(* changeset and a patchset exported one after the other describe the same *)
(* recorded changes.                                                       *)
C32_ExportReadOnly ==
    [][(ExportChangeset \/ ExportPatchset) =>
          /\ sess' = sess
          /\ is_empty(sess') = is_empty(sess)
          /\ Exported => out'.empty = out.empty
          /\ (Exported /\ out'.fn = out.fn) => out'.r = out.r
          /\ (Exported /\ out'.fn # out.fn) =>
                (out.r.ok /\ out'.r.ok /\ SameChanges(out.r.val, out'.r.val))
      ]_vars

C32_Witness ==
    /\ sess.state = "live"
    /\ out.fn = "patchset"
    /\ out.r.ok
    /\ out.r.val # <<>>
    /\ ~out.empty
    /\ ~is_empty(sess)
    /\ sess.native.tabs = <<TableSeq[1]>>
    /\ ~sess.native.enabled
    /\ changeset(sess, src).result.ok
    /\ SameChanges(changeset(sess, src).result.val, out.r.val)

----------------------------------------------------------------------------
(* Abort ends the apply call (SpecConflict) *)

AbortingAt(i) == Resolved(i) \in {"Abort", "Panic"}

(* C33: Abort short-circuits the rest of an apply call: once the conflict  *)
(* callback has returned Abort (the resolver returned Abort, the conflict  *)
(* code was unknown, or the resolver failed), the resolver is not invoked  *)
(* again and no further change of the diff is applied in that apply call.  *)
C33_AbortShortCircuits ==
    Applied =>
        /\ \A i \in DOMAIN Log :
              (AbortingAt(i) \/ Log[i].ret = SQLITE_CHANGESET_ABORT) =>
                  /\ Log[i].ret = SQLITE_CHANGESET_ABORT
                  /\ i = Len(Log)
                  /\ \A j \in DOMAIN res.data :
                        j > Log[i].at =>
                            Row(rep, res.data[j].cell) = Row(res.before, res.data[j].cell)
        /\ \A code \in {0, 6, MaxCode} :
              ~ConflictType_from_raw(code).some =>
                  LET cb == conflict_callback(ConflictContext(res.handler), code)
                  IN  cb.ret = SQLITE_CHANGESET_ABORT /\ ~cb.invoked

C33_Witness ==
    /\ Applied
    /\ Len(res.data) = 2
    /\ Len(Log) = 1
    /\ Log[1].at = 1
    /\ Resolved(1) = "Panic"
    /\ DetectConflict(res.before, res.data[2]) = 0
    /\ res.data[2].new # Row(res.before, res.data[2].cell)
    /\ rep = res.before

----------------------------------------------------------------------------
(* Successive apply calls (SpecRepeat) *)

Earlier == last.fn = "apply_impl"
EnteredNative == br.pc = "native" /\ br.log = <<>>
ReturnedAbort == \E i \in DOMAIN br.log : br.log[i].ret = SQLITE_CHANGESET_ABORT

(* C34: each apply call starts with fresh aborted and resolver-failed      *)
(* flags that live only for that call: the flags at the end of a call are  *)
(* those its own callbacks set, so after an apply call that ended in       *)
(* ConflictAborted or in the resolver-failure error, a later conflict-free *)
(* apply on the same connection returns success.                           *)
C34_FreshFlagsPerCall ==
    /\ EnteredNative => (~br.ctx.aborted /\ ~br.ctx.panicked)
    /\ (Finished /\ br.called) =>
          /\ br.ctx.aborted = ReturnedAbort
          /\ br.ctx.panicked = ResolverFailed
    /\ (/\ Finished
        /\ Earlier
        /\ last.result \in {Err(ConflictAborted), Err(ConflictHandlerPanicked)}
        /\ br.called
        /\ br.log = <<>>
        /\ br.rc = SQLITE_OK) => br.result = Ok("unit")

C34_Witness ==
    /\ Finished
    /\ Earlier
    /\ last.result = Err(ConflictHandlerPanicked)
    /\ br.handler = Always("Panic")
    /\ br.called
    /\ br.log = <<>>
    /\ br.rc = SQLITE_OK
    /\ br.result = Ok("unit")

====
